---- MODULE Spec2Model ----
(***************************************************************************)
(* Kripto API (app.py): the API-key guard, symbol resolution, the retrying *)
(* Binance fetch, the per-symbol aggregation and the JSON / CSV responses. *)
(*                                                                         *)
(* Text that the code inspects character by character (the symbols query   *)
(* string, the symbols) is a sequence of one-character strings.  Text the  *)
(* code only copies or compares whole (keys, prices, messages) is a TLA+   *)
(* string.  None is Python's None, Absent marks a key a dict does not have.*)
(***************************************************************************)
EXTENDS Integers, Sequences, FiniteSets, TLC

VARIABLES
    pc,         \* position of the request being served
    endpoint,   \* request.endpoint
    key,        \* request.headers.get("X-API-KEY")
    q,          \* request.args.get("symbols", "")
    ran,        \* the view function of the request has been entered
    symbols,    \* the resolved symbol list of the view
    i,          \* position of collect_binance_usdt_prices' loop in symbols
    out,        \* collect_binance_usdt_prices' mapping
    retries,    \* fetch_binance_24hr's retries argument
    attempt,    \* fetch_binance_24hr's loop variable
    last_err,   \* fetch_binance_24hr's last_err
    data,       \* the value fetch_binance_24hr returned
    resp,       \* what the upstream answered to the latest requests.get
    calls,      \* requests.get calls made by the running fetch
    sleeps,     \* time.sleep calls made by the running fetch
    fetched,    \* some requests.get call was made while serving the request
    status,     \* HTTP status of the response
    body        \* body of the response

vars == <<pc, endpoint, key, q, ran, symbols, i, out, retries, attempt,
          last_err, data, resp, calls, sleeps, fetched, status, body>>

(* ------------------------------ bounds --------------------------------- *)
MaxQueryLen == 2
MaxRetries == 3

(* ----------------------------- constants ------------------------------- *)
None == "<None>"
Absent == "<absent>"

API_KEY == "onur123"

DOCS_ENDPOINTS == {"apidocs", "apispec"}

DefaultRetries == 2

BTCUSDT == <<"B", "T", "C", "U", "S", "D", "T">>
ETHUSDT == <<"E", "T", "H", "U", "S", "D", "T">>
SOLUSDT == <<"S", "O", "L", "U", "S", "D", "T">>
DOGEUSDT == <<"D", "O", "G", "E", "U", "S", "D", "T">>
XRPUSDT == <<"X", "R", "P", "U", "S", "D", "T">>

DEFAULT_SYMBOLS == <<BTCUSDT, ETHUSDT, SOLUSDT, DOGEUSDT, XRPUSDT>>

(* ------------------------- str methods used ---------------------------- *)
LowerCase == <<"a", "b", "c", "d", "e", "f", "g", "h", "i", "j", "k", "l", "m",
               "n", "o", "p", "q", "r", "s", "t", "u", "v", "w", "x", "y", "z">>
UpperCase == <<"A", "B", "C", "D", "E", "F", "G", "H", "I", "J", "K", "L", "M",
               "N", "O", "P", "Q", "R", "S", "T", "U", "V", "W", "X", "Y", "Z">>

IsSpace(c) == c = " "

upper_char(c) ==
    IF \E k \in 1..Len(LowerCase) : LowerCase[k] = c
    THEN UpperCase[CHOOSE k \in 1..Len(LowerCase) : LowerCase[k] = c]
    ELSE c

upper(s) == [k \in 1..Len(s) |-> upper_char(s[k])]

RECURSIVE lstrip(_)
lstrip(s) ==
    IF Len(s) > 0 /\ IsSpace(Head(s)) THEN lstrip(Tail(s)) ELSE s

RECURSIVE rstrip(_)
rstrip(s) ==
    IF Len(s) > 0 /\ IsSpace(s[Len(s)])
    THEN rstrip(SubSeq(s, 1, Len(s) - 1))
    ELSE s

strip(s) == rstrip(lstrip(s))

RECURSIVE split(_, _)
split(s, sep) ==
    IF \E k \in 1..Len(s) : s[k] = sep
    THEN LET k == CHOOSE k \in 1..Len(s) :
                      s[k] = sep /\ \A j \in 1..(k - 1) : s[j] # sep
         IN  <<SubSeq(s, 1, k - 1)>> \o split(SubSeq(s, k + 1, Len(s)), sep)
    ELSE <<s>>

Truthy(s) == Len(s) > 0

NonBlank(s) == Truthy(strip(s))

(* ------------------------- symbol resolution --------------------------- *)
live_prices_symbols(query) ==
    IF Truthy(strip(query))
    THEN LET kept == SelectSeq(split(query, ","), NonBlank)
         IN  [k \in 1..Len(kept) |-> upper(strip(kept[k]))]
    ELSE DEFAULT_SYMBOLS

export_csv_symbols_no_upper(query) ==
    IF Truthy(strip(query))
    THEN LET kept == SelectSeq(split(query, ","), NonBlank)
         IN  [k \in 1..Len(kept) |-> strip(kept[k])]
    ELSE DEFAULT_SYMBOLS

export_csv_symbols(query) ==
    IF Truthy(strip(query))
    THEN LET kept == SelectSeq(split(query, ","), NonBlank)
         IN  [k \in 1..Len(kept) |-> upper(strip(kept[k]))]
    ELSE DEFAULT_SYMBOLS

(* ------------------------------ requests ------------------------------- *)
Endpoints == {"health", "index", "live_prices", "export_csv"} \cup DOCS_ENDPOINTS

Keys == {None, API_KEY, "ONUR123", ""}

QueryChars == {"a", "B", " ", ","}

SpecExample ==
    <<"b", "t", "c", "u", "s", "d", "t", ",", " ", "e", "t", "h", "u", "s",
      "d", "t", " ", ",", ",", " ">>

Queries ==
    UNION {[1..n -> QueryChars] : n \in 0..MaxQueryLen}
        \cup {<<"a", ",", "B">>, <<"a", ",", "a">>, SpecExample}

(* ------------------------- upstream answers ---------------------------- *)
Dict(lastPrice, closeTime, openTime, error) ==
    [json |-> "object", lastPrice |-> lastPrice, closeTime |-> closeTime,
     openTime |-> openTime, error |-> error]

NoData == [json |-> "none", lastPrice |-> Absent, closeTime |-> Absent,
           openTime |-> Absent, error |-> Absent]

JsonArray == [NoData EXCEPT !.json = "array"]
JsonNull == [NoData EXCEPT !.json = "null"]

Bodies ==
    {Dict("68234.12", "1733792110000", "1733705710000", Absent),
     Dict(None, Absent, Absent, Absent),
     Dict(Absent, Absent, Absent, Absent),
     JsonArray, JsonNull}

Responses ==
    {[kind |-> k, data |-> NoData] :
        k \in {"network_error", "http_error", "bad_json"}}
        \cup {[kind |-> "json", data |-> d] : d \in Bodies}

NoResp == [kind |-> "none", data |-> NoData]

\* str(e) of the exception the try block raises on the answer r
ErrStr(r) ==
    CASE r.kind = "network_error" -> "ConnectionError"
      [] r.kind = "http_error" -> "HTTPError"
      [] r.kind = "bad_json" -> "JSONDecodeError"

ErrMsgs == {"ConnectionError", "HTTPError", "JSONDecodeError"}

(* ------------------------------ dict access ---------------------------- *)
\* d.get(k): the value, or None for a key the dict does not have
Get(v) == IF v = Absent THEN None ELSE v

\* d.get(k, default)
GetOr(v, default) == IF v = Absent THEN default ELSE v

\* a or b
Or(a, b) == IF a \in {None, ""} THEN b ELSE a

Entry(usdt_p, ts, error) == [usdt_p |-> usdt_p, ts |-> ts, error |-> error]

EmptyDict == Entry(Absent, Absent, Absent)

(* ------------------------------ AuthGuard ------------------------------ *)
AllowedWithHealthAndIndex(ep) ==
    ep \in DOCS_ENDPOINTS \cup {"health", "index"}

Allowed(ep) == ep \in DOCS_ENDPOINTS

KeyMissing(k) == k = None

KeyMismatch(k) == k # API_KEY

Unauthorized == [type |-> "json", error |-> "Unauthorized"]

NoBody == [type |-> "none"]

ResetView ==
    /\ symbols = <<>> /\ i = 1 /\ out = <<>> /\ ran = FALSE

ResetFetch ==
    /\ attempt = 0 /\ last_err = None /\ data = NoData /\ resp = NoResp
    /\ calls = 0 /\ sleeps = 0

Init ==
    /\ pc = "idle"
    /\ endpoint = "" /\ key = None /\ q = <<>>
    /\ ResetView /\ ResetFetch
    /\ retries = DefaultRetries
    /\ fetched = FALSE
    /\ status = 0 /\ body = NoBody

\* a request arrives: Flask routes it and runs the before_request hook
Receive ==
    /\ pc = "idle"
    /\ \E ep \in Endpoints, k \in Keys, query \in Queries :
          /\ endpoint' = ep /\ key' = k /\ q' = query
    /\ pc' = "before_request"
    /\ symbols' = <<>> /\ i' = 1 /\ out' = <<>> /\ ran' = FALSE
    /\ attempt' = 0 /\ last_err' = None /\ data' = NoData /\ resp' = NoResp
    /\ calls' = 0 /\ sleeps' = 0
    /\ retries' = DefaultRetries
    /\ fetched' = FALSE
    /\ status' = 0 /\ body' = NoBody

\* the response is sent; nothing of the request outlives it
reply ==
    /\ pc = "done"
    /\ pc' = "idle"
    /\ endpoint' = "" /\ key' = None /\ q' = <<>>
    /\ symbols' = <<>> /\ i' = 1 /\ out' = <<>> /\ ran' = FALSE
    /\ attempt' = 0 /\ last_err' = None /\ data' = NoData /\ resp' = NoResp
    /\ calls' = 0 /\ sleeps' = 0
    /\ retries' = DefaultRetries
    /\ fetched' = FALSE
    /\ status' = 0 /\ body' = NoBody

check_api_key ==
    /\ pc = "before_request"
    /\ IF Allowed(endpoint)
       THEN pc' = "view" /\ UNCHANGED <<status, body>>
       ELSE IF KeyMismatch(key)
            THEN pc' = "done" /\ status' = 401 /\ body' = Unauthorized
            ELSE pc' = "view" /\ UNCHANGED <<status, body>>
    /\ UNCHANGED <<endpoint, key, q, ran, symbols, i, out, retries, attempt,
                   last_err, data, resp, calls, sleeps, fetched>>

health ==
    /\ pc = "view" /\ endpoint = "health"
    /\ pc' = "done" /\ ran' = TRUE
    /\ status' = 200 /\ body' = [type |-> "json", status |-> "ok"]
    /\ UNCHANGED <<endpoint, key, q, symbols, i, out, retries, attempt,
                   last_err, data, resp, calls, sleeps, fetched>>

index ==
    /\ pc = "view" /\ endpoint = "index"
    /\ pc' = "done" /\ ran' = TRUE
    /\ status' = 200 /\ body' = [type |-> "json", name |-> "Kripto API"]
    /\ UNCHANGED <<endpoint, key, q, symbols, i, out, retries, attempt,
                   last_err, data, resp, calls, sleeps, fetched>>

\* the Swagger UI and /apispec.json views registered by Swagger(app, ...)
docs ==
    /\ pc = "view" /\ endpoint \in DOCS_ENDPOINTS
    /\ pc' = "done" /\ ran' = TRUE
    /\ status' = 200 /\ body' = [type |-> "docs"]
    /\ UNCHANGED <<endpoint, key, q, symbols, i, out, retries, attempt,
                   last_err, data, resp, calls, sleeps, fetched>>

(* ------------------------- fetch_binance_24hr -------------------------- *)
InRangeOfRetries(a, r) == a < r

\* for attempt in range(retries + 1)
InRange(a, r) == a < r + 1

RaisesWithoutStatusCheck(r) == r.kind \in {"network_error", "bad_json"}

\* the answers on which requests.get, raise_for_status or r.json raises
Raises(r) == r.kind \in {"network_error", "http_error", "bad_json"}

\* one pass of the loop body: the call, then return data or the except block
fetch_attempt ==
    /\ pc = "fetch"
    /\ InRange(attempt, retries)
    /\ \E r \in Responses :
          /\ resp' = r
          /\ IF Raises(r)
             THEN /\ last_err' = ErrStr(r)
                  /\ sleeps' = sleeps + 1
                  /\ attempt' = attempt + 1
                  /\ pc' = "fetch"
                  /\ UNCHANGED data
             ELSE /\ data' = r.data
                  /\ pc' = "fetched"
                  /\ UNCHANGED <<last_err, sleeps, attempt>>
    /\ calls' = calls + 1
    /\ fetched' = TRUE
    /\ UNCHANGED <<endpoint, key, q, ran, symbols, i, out, retries, status,
                   body>>

\* the loop is over: return {"error": ...}
fetch_exhausted ==
    /\ pc = "fetch"
    /\ ~InRange(attempt, retries)
    /\ data' = Dict(Absent, Absent, Absent,
                    IF last_err # None THEN last_err ELSE "unknown error")
    /\ pc' = "fetched"
    /\ UNCHANGED <<endpoint, key, q, ran, symbols, i, out, retries, attempt,
                   last_err, resp, calls, sleeps, fetched, status, body>>

(* --------------------- collect_binance_usdt_prices --------------------- *)
\* "lastPrice" in data, data[...] and data.get(...) need a dict
IsDict(d) == d.json = "object"

\* the entry the loop body builds from what the fetch returned
collect_entry(d) ==
    IF d.lastPrice # Absent
    THEN Entry(d.lastPrice, Or(Get(d.closeTime), Get(d.openTime)), Absent)
    ELSE Entry(None, Absent, GetOr(d.error, "no lastPrice"))

PutIfPriced(m, sym, entry) ==
    IF entry.error = Absent
    THEN [k \in (DOMAIN m) \cup {sym} |-> IF k = sym THEN entry ELSE m[k]]
    ELSE m

\* out[sym] = entry
Put(m, sym, entry) ==
    [k \in (DOMAIN m) \cup {sym} |-> IF k = sym THEN entry ELSE m[k]]

ServerError == [type |-> "error"]

\* the rest of the loop body after the fetch returned, and the loop head
collect_store ==
    /\ pc = "fetched"
    /\ IF IsDict(data)
       THEN /\ out' = Put(out, symbols[i], collect_entry(data))
            /\ i' = i + 1
            /\ pc' = IF i + 1 <= Len(symbols) THEN "fetch" ELSE "collected"
            /\ UNCHANGED <<status, body>>
       ELSE \* the exception leaves the view: Flask answers 500
            /\ pc' = "done" /\ status' = 500 /\ body' = ServerError
            /\ UNCHANGED <<out, i>>
    /\ attempt' = 0 /\ last_err' = None /\ data' = NoData /\ resp' = NoResp
    /\ calls' = 0 /\ sleeps' = 0
    /\ UNCHANGED <<endpoint, key, q, ran, symbols, retries, fetched>>

(* ------------------------------- views --------------------------------- *)
live_prices_begin ==
    /\ pc = "view" /\ endpoint = "live_prices"
    /\ ran' = TRUE
    /\ symbols' = live_prices_symbols(q)
    /\ i' = 1 /\ out' = <<>>
    /\ pc' = IF Len(symbols') >= 1 THEN "fetch" ELSE "collected"
    /\ UNCHANGED <<endpoint, key, q, retries, attempt, last_err, data, resp,
                   calls, sleeps, fetched, status, body>>

\* all(v.get("usdt.p") is None for v in prices.values())
AllNone(prices) == \A k \in DOMAIN prices : Get(prices[k].usdt_p) = None

live_prices_end ==
    /\ pc = "collected" /\ endpoint = "live_prices"
    /\ IF AllNone(out)
       THEN /\ status' = 502
            /\ body' = [type |-> "json", error |-> "Binance data unavailable",
                        details |-> out]
       ELSE /\ status' = 200
            /\ body' = [type |-> "json", prices |-> out]
    /\ pc' = "done"
    /\ UNCHANGED <<endpoint, key, q, ran, symbols, i, out, retries, attempt,
                   last_err, data, resp, calls, sleeps, fetched>>

export_csv_begin ==
    /\ pc = "view" /\ endpoint = "export_csv"
    /\ ran' = TRUE
    /\ symbols' = export_csv_symbols(q)
    /\ i' = 1 /\ out' = <<>>
    /\ pc' = IF Len(symbols') >= 1 THEN "fetch" ELSE "collected"
    /\ UNCHANGED <<endpoint, key, q, retries, attempt, last_err, data, resp,
                   calls, sleeps, fetched, status, body>>

\* csv.writer writes None as the empty string
CsvCell(v) == IF v = None THEN "" ELSE v

CsvHeader == <<(<<"s", "y", "m", "b", "o", "l">>), "usdt.p", "ts">>

\* prices.get(sym, {})
RowOf(prices, sym) == IF sym \in DOMAIN prices THEN prices[sym] ELSE EmptyDict

CsvRow(prices, sym) ==
    <<sym, CsvCell(Get(RowOf(prices, sym).usdt_p)),
      CsvCell(Get(RowOf(prices, sym).ts))>>

CsvRows(syms, prices) ==
    <<CsvHeader>> \o [k \in 1..Len(syms) |-> CsvRow(prices, syms[k])]

export_csv_end ==
    /\ pc = "collected" /\ endpoint = "export_csv"
    /\ status' = 200
    /\ body' = [type |-> "csv", rows |-> CsvRows(symbols, out)]
    /\ pc' = "done"
    /\ UNCHANGED <<endpoint, key, q, ran, symbols, i, out, retries, attempt,
                   last_err, data, resp, calls, sleeps, fetched>>

(* --------------------------- specifications ---------------------------- *)
Next ==
    \/ Receive
    \/ check_api_key
    \/ health
    \/ index
    \/ docs
    \/ live_prices_begin
    \/ live_prices_end
    \/ export_csv_begin
    \/ export_csv_end
    \/ fetch_attempt
    \/ fetch_exhausted
    \/ collect_store
    \/ reply

Spec == Init /\ [][Next]_vars

\* fetch_binance_24hr(symbol, retries = r) called on its own
FetchSymbols == {BTCUSDT, <<"F", "A", "K", "E">>}

FetchInit ==
    /\ pc = "fetch"
    /\ endpoint = "" /\ key = None /\ q = <<>>
    /\ ran = FALSE /\ i = 1 /\ out = <<>>
    /\ symbols \in {<<s>> : s \in FetchSymbols}
    /\ ResetFetch
    /\ retries \in 0..MaxRetries
    /\ fetched = FALSE
    /\ status = 0 /\ body = NoBody

FetchNext ==
    \/ fetch_attempt
    \/ fetch_exhausted

FetchSpec == FetchInit /\ [][FetchNext]_vars

(* ------------------------------- claims -------------------------------- *)
Protected == {"live_prices", "export_csv"}

FailureKinds == {"network_error", "http_error", "bad_json"}

Range(s) == {s[k] : k \in 1..Len(s)}

IsFailure(e) == e.error # Absent

\* C1 (as stated): a request to /health or / is answered 200 whatever the
\* X-API-KEY header is; it is never answered 401.
C1_PublicPathsAlwaysAllowed ==
    (pc = "done" /\ endpoint \in {"health", "index"}) => status = 200

\* C1 (amended): /health and / are not exempt from the key check: such a
\* request is answered 200 by its view when X-API-KEY equals the configured
\* secret, and 401 {"error": "Unauthorized"} without running the view when
\* the header is absent or differs.
C1_HealthAndIndexNeedKey ==
    (pc = "done" /\ endpoint \in {"health", "index"}) =>
        IF key = API_KEY
        THEN status = 200 /\ ran
        ELSE status = 401 /\ body = Unauthorized /\ ~ran

C1_Witness ==
    pc = "done" /\ endpoint = "health" /\ key = None /\ status = 401

\* C2: on /live/prices and /export/csv a missing or different X-API-KEY is
\* answered 401 {"error": "Unauthorized"} with no upstream call at any point
\* of the request; an equal key is never answered 401 and the view (the fetch
\* pipeline) runs.
C2_ProtectedNeedKey ==
    endpoint \in Protected =>
        IF key = API_KEY
        THEN status # 401 /\ (pc = "done" => ran)
        ELSE /\ ~fetched /\ ~ran
             /\ pc \in {"before_request", "done"}
             /\ (pc = "done" => status = 401 /\ body = Unauthorized)

C2_Witness ==
    /\ pc = "done" /\ endpoint = "live_prices" /\ key = "ONUR123"
    /\ status = 401 /\ ~fetched

\* C3: /live/prices answers 502 exactly when every entry of the aggregated
\* mapping is a failure (has an error), and 200 when some symbol succeeded.
C3_BadGatewayIffAllFailed ==
    (pc = "done" /\ endpoint = "live_prices" /\ status \in {200, 502}) =>
        (status = 502 <=> \A k \in DOMAIN out : IsFailure(out[k]))

\* C4: fetch_binance_24hr(symbol, retries = r) returns after exactly r + 1
\* calls with the last error's message when every call failed; when call k is
\* the first to succeed it returns that call's data after exactly k calls; no
\* call follows the return.
C4_AttemptCount ==
    pc = "fetched" =>
        /\ ~ENABLED fetch_attempt
        /\ IF resp.kind \in FailureKinds
           THEN /\ calls = retries + 1
                /\ data = Dict(Absent, Absent, Absent, ErrStr(resp))
           ELSE /\ calls = attempt + 1
                /\ calls <= retries + 1
                /\ data = resp.data

C4_Witness ==
    /\ pc = "fetched" /\ retries = 2 /\ calls = 3
    /\ resp.kind = "bad_json" /\ data.error = "JSONDecodeError"

\* an upstream answer that counts as a failed attempt in C5: an exception, or
\* a JSON object without lastPrice
FailedAnswer(r) ==
    \/ r.kind \in FailureKinds
    \/ r.kind = "json" /\ r.data.json = "object" /\ r.data.lastPrice = Absent

\* C5 (as stated): every kind of failed attempt, a 200 answer without
\* lastPrice included, is retried while attempts remain: the fetch does not
\* end on a failed answer before its last attempt.
C5_EveryFailureRetried ==
    (pc = "fetched" /\ calls < retries + 1) => ~FailedAnswer(resp)

\* C5 (amended): a network error, a non-success HTTP status and a non-JSON
\* body are retried while attempts remain; a 200 answer whose JSON body has
\* no lastPrice is not retried: it ends the fetch, which returns that body.
C5_OnlyExceptionsRetried ==
    /\ (pc = "fetched" /\ resp.kind \in FailureKinds) => calls = retries + 1
    /\ (pc = "fetch" /\ calls > 0) =>
            resp.kind \in FailureKinds /\ calls = attempt
    /\ (pc = "fetched" /\ resp.kind = "json") =>
            data = resp.data /\ calls = attempt + 1

C5_Witness ==
    /\ pc = "fetched" /\ retries = 2 /\ calls = 1
    /\ resp.kind = "json" /\ data = Dict(Absent, Absent, Absent, Absent)

\* C6: no exception escapes the fetch/aggregate stage: whatever the upstream
\* answers, collect_binance_usdt_prices returns a mapping with an entry for
\* the symbol and the view is never ended by an exception.
C6_CollectNeverRaises ==
    (pc = "done" /\ endpoint \in Protected /\ ran) =>
        status # 500 /\ Range(symbols) \subseteq DOMAIN out

\* C7: an authenticated /export/csv request is answered 200 with the header
\* row and one row per requested symbol in request order, the cells of a
\* failed symbol empty, whatever the upstream answers.
C7_CsvAlwaysOneRowPerSymbol ==
    (pc = "done" /\ endpoint = "export_csv" /\ key = API_KEY) =>
        /\ status = 200
        /\ Len(body.rows) = Len(symbols) + 1
        /\ body.rows[1] = CsvHeader
        /\ \A k \in 1..Len(symbols) :
              /\ body.rows[k + 1][1] = symbols[k]
              /\ IsFailure(out[symbols[k]]) =>
                    body.rows[k + 1][2] = "" /\ body.rows[k + 1][3] = ""

\* C8: the mapping collect_binance_usdt_prices builds has exactly the
\* requested symbols as keys: the symbols handled so far while the loop runs,
\* all of them once it has returned, N keys for N distinct symbols.
C8_KeysAreRequestedSymbols ==
    /\ pc \in {"fetch", "fetched"} =>
            DOMAIN out = {symbols[k] : k \in 1..(i - 1)}
    /\ (pc = "collected" \/ (pc = "done" /\ ran /\ status \in {200, 502}
                              /\ endpoint \in Protected)) =>
            /\ DOMAIN out = Range(symbols)
            /\ (\A j, k \in 1..Len(symbols) : j # k => symbols[j] # symbols[k])
                  => Cardinality(DOMAIN out) = Len(symbols)

C8_Witness ==
    /\ pc = "collected" /\ Len(symbols) = 2 /\ symbols[1] # symbols[2]
    /\ IsFailure(out[symbols[1]]) /\ ~IsFailure(out[symbols[2]])

\* the pieces of s between its commas, by position
Commas(s) == {k \in 1..Len(s) : s[k] = ","}

Bounds(s) == {0} \cup Commas(s) \cup {Len(s) + 1}

Nth(S, n) == CHOOSE x \in S : Cardinality({y \in S : y < x}) = n - 1

\* the positions of piece j that hold no space
Inked(s, j) ==
    {k \in (Nth(Bounds(s), j) + 1)..(Nth(Bounds(s), j + 1) - 1) : s[k] # " "}

Least(S) == CHOOSE x \in S : \A y \in S : x <= y

Greatest(S) == CHOOSE x \in S : \A y \in S : y <= x

NonEmptyPieces(s) == {j \in 1..(Cardinality(Commas(s)) + 1) : Inked(s, j) # {}}

UpperOf(c) ==
    CASE c = "a" -> "A" [] c = "b" -> "B" [] c = "c" -> "C" [] c = "d" -> "D"
      [] c = "e" -> "E" [] c = "h" -> "H" [] c = "s" -> "S" [] c = "t" -> "T"
      [] c = "u" -> "U" [] OTHER -> c

Resolved(s) ==
    IF \A k \in 1..Len(s) : s[k] = " "
    THEN <<BTCUSDT, ETHUSDT, SOLUSDT, DOGEUSDT, XRPUSDT>>
    ELSE [r \in 1..Cardinality(NonEmptyPieces(s)) |->
            LET j == Nth(NonEmptyPieces(s), r)
                lo == Least(Inked(s, j))
                hi == Greatest(Inked(s, j))
            IN  [k \in 1..(hi - lo + 1) |-> UpperOf(s[lo + k - 1])]]

\* C9: an empty or blank symbols query resolves to the default list;
\* any other to its comma-separated pieces, trimmed, uppercased, the empty
\* ones dropped, in order, duplicates kept; "btcusdt, ethusdt ,, " gives
\* [BTCUSDT, ETHUSDT]; both views resolve a query to the same list.
C9_SymbolResolution ==
    (ran /\ endpoint \in Protected) =>
        /\ symbols = Resolved(q)
        /\ live_prices_symbols(q) = export_csv_symbols(q)
        /\ q = SpecExample => symbols = <<BTCUSDT, ETHUSDT>>

C9_Witness ==
    /\ ran /\ endpoint = "export_csv" /\ q = SpecExample
    /\ symbols = <<BTCUSDT, ETHUSDT>>

\* C10: the delay is an inter-attempt delay: a fetch that made k calls has
\* slept k - 1 times when it returns.
C10_DelaysOnlyBetweenAttempts ==
    pc = "fetched" => sleeps = calls - 1

====
